---- MODULE Spec2Model ----
(***************************************************************************)
(* tauri-plugin-http, guest side: the fetch() facade of dist-js/index.js. *)
(* One fetch call is one asynchronous chain: it runs without interruption *)
(* up to its next await, and resumes when the awaited promise settles.    *)
(* The host executor (the Rust side reached through invoke) is the        *)
(* environment: it resolves or rejects every remote call as it pleases    *)
(* and hands out fresh resource ids.                                      *)
(***************************************************************************)
EXTENDS Integers, Sequences, FiniteSets, TLC

VARIABLES
    pc,           \* per call: where the async chain of fetch is suspended
    signal,       \* per call: init.signal, "none" | "live" | "aborted"
    abortPc,      \* per call: pc of the chain when its signal fired, or "never"
    listener,     \* per call: the 'abort' listener of line 109 is registered
    rid,          \* per call: const rid (line 90), NoRid while unset
    responseRid,  \* per call: const responseRid (line 110), NoRid while unset
    outcome,      \* per call: how the promise returned by fetch settled
    trace,        \* per call: the remote calls it issued and their settlements
    nextRid,      \* host executor: next free resource id
    meta,         \* per call: status, statusText, url, headers of line 110
    response,     \* per call: const res (lines 116-133), the Response built
    initHeaders,  \* init.headers as the caller gave it (present, list of pairs)
    inputHeaders, \* the headers of input when it is a Request
    mode,         \* init.mode
    bodyType,     \* the content type the body of init implies ("": none)
    mappedHeaders,\* const mappedHeaders (line 80), the header list sent
    hpc,          \* "built": inputs chosen, "sent": mappedHeaders computed
    reqBytes,     \* the bytes req.arrayBuffer() yields (line 65)
    data,         \* const data (line 66), the body of the request descriptor
    initGiven,    \* the client options of init as the caller wrote them
    initObj,      \* the client options the caller's init object holds now
    sentOptions,  \* the client options of each descriptor sent with that init
    defaultClient,\* index.mjs: let defaultClient (the id of the client, or null)
    nextClient,   \* the id the host gives the next client it creates
    created,      \* the number of 'plugin:http|create_client' calls issued
    lpc,          \* the position of each legacy fetch call
    lopts,        \* options.responseType as each caller wrote it
    lclient,      \* the clientId each call sent its request with
    lsent,        \* options.responseType as sent to the host
    lres,         \* what the host resolved 'plugin:http|request' with
    lout          \* the outcome of each legacy fetch call

rvars == <<meta, response>>
fvars == <<pc, signal, abortPc, listener, rid, responseRid, outcome, trace, nextRid, rvars>>
ovars == <<initGiven, initObj, sentOptions>>
lvars == <<defaultClient, nextClient, created, lpc, lopts, lclient, lsent, lres, lout>>
hvars == <<initHeaders, inputHeaders, mode, bodyType, mappedHeaders, hpc, reqBytes, data, ovars, lvars>>
vars == <<fvars, rvars, hvars>>

\* ----------------------------------------------------------------- bounds
NumCalls == 1
Calls == 1..NumCalls
\* the longest list of header pairs the caller passes
MaxHeaders == 2
\* the longest request body
MaxBody == 2
\* the number of fetch calls made with one init object
MaxFetches == 2
\* the number of concurrent calls of the legacy fetch
NumLegacy == 2
LCalls == 1..NumLegacy

\* ------------------------------------------------------------- constants
\* a bug: the cancellation is reported with the message of a host failure
ErrorAsTransport == "TransportError"
ERROR_REQUEST_CANCELLED == "Request canceled"

\* the four protocol commands and the cancel command
CmdFetch == "plugin:http|fetch"
CmdCancel == "plugin:http|fetch_cancel"
CmdSend == "plugin:http|fetch_send"
CmdReadBody == "plugin:http|fetch_read_body"
ProtocolCmds == {CmdFetch, CmdSend, CmdReadBody}

\* the value of an identifier that was never assigned
NoRid == 0

\* what the host executor may reject a remote call with
HostErrors == {"PermissionDenied", "TransportError"}
\* what the host executor may deliver as a response body (number[])
HostBodies == {<<>>, <<72, 105>>}

Pending == [kind |-> "pending", value |-> <<>>, error |-> ""]
Rejected(e) == [kind |-> "rejected", value |-> <<>>, error |-> e]
Resolved(b) == [kind |-> "resolved", value |-> b, error |-> ""]

\* ------------------------------------------------------------ trace events
\* invoke(cmd, {rid}) is recorded when it is issued, and again when the
\* promise it returned settles (with the rid, error or body the host gave)
InvokeEv(cmd, r) == [ev |-> "invoke", cmd |-> cmd, rid |-> r, err |-> "", body |-> <<>>]
ResolveEv(cmd, r, b) == [ev |-> "resolve", cmd |-> cmd, rid |-> r, err |-> "", body |-> b]
RejectEv(cmd, e) == [ev |-> "reject", cmd |-> cmd, rid |-> NoRid, err |-> e, body |-> <<>>]

Count(s, ev, cmd) == Cardinality({i \in 1..Len(s) : s[i].ev = ev /\ s[i].cmd = cmd})
Invoked(c, cmd) == Count(trace[c], "invoke", cmd)
Settled(c, cmd) == Count(trace[c], "resolve", cmd) + Count(trace[c], "reject", cmd)
Outstanding(c, cmd) == Invoked(c, cmd) - Settled(c, cmd)
InvokedWith(c, cmd, r) == \E i \in 1..Len(trace[c]) : trace[c][i] = InvokeEv(cmd, r)
ResolvedCmd(c, cmd) == Count(trace[c], "resolve", cmd) > 0
RejectedCmd(c, cmd) == Count(trace[c], "reject", cmd) > 0
\* the index of the first event ev of cmd in the trace of c (0: none)
Pos(c, ev, cmd) ==
    LET S == {i \in 1..Len(trace[c]) : trace[c][i].ev = ev /\ trace[c][i].cmd = cmd}
    IN IF S = {} THEN 0 ELSE CHOOSE i \in S : \A j \in S : i <= j
\* what the host rejected cmd with / the body it resolved readBody with
ErrorOf(c, cmd) == trace[c][Pos(c, "reject", cmd)].err
BodyOf(c) == trace[c][Pos(c, "resolve", CmdReadBody)].body

\* ------------------------------------------------------ header normalizer
\* Header names as callers write them, and the byte-lowercased name the
\* Headers class compares and reports them by
HeaderNames == {"Content-Type", "content-type", "Cookie", "X-Id"}
LowerCase(n) ==
    CASE n = "Content-Type" -> "content-type"
      [] n = "Cookie" -> "cookie"
      [] n = "X-Id" -> "x-id"
      [] OTHER -> n
\* the lowercased names in the order entries() sorts them
SortedNames == <<"content-type", "cookie", "x-id">>
HeaderValues == {"", "text/plain", "application/json"}
\* the type new Request derives from a string body
ImplicitType == "text/plain;charset=UTF-8"
\* forbidden request-header names, dropped under the guard "request"
ForbiddenNames == {"cookie"}
\* Content-Type values that are no-CORS-safelisted
SafelistedTypes == {"text/plain", ImplicitType}
HeaderPairs == HeaderNames \X HeaderValues
PairLists == UNION {[1..n -> HeaderPairs] : n \in 0..MaxHeaders}

\* A header list is a sequence of <<name, value>>; a value is the sequence of
\* the strings it is the ", "-joined combination of (one string for a header
\* as written). The empty sequence stands for null.
RECURSIVE Join(_)
Join(vals) == IF vals = <<>> THEN <<>> ELSE Head(vals) \o Join(Tail(vals))

\* Headers.prototype.get: the combined value of the headers named name
HeadersGet(list, name) ==
    LET F == SelectSeq(list, LAMBDA p : LowerCase(p[1]) = LowerCase(name))
    IN Join([i \in 1..Len(F) |-> F[i][2]])

\* JavaScript truthiness of what get returned: null and "" are falsy
Truthy(v) == v # <<>> /\ v # <<"">>

\* Headers.prototype.set: the first header named name takes the value and the
\* others are removed; the header is appended when there is none
HeadersSet(list, name, value) ==
    LET M(i) == LowerCase(list[i][1]) = LowerCase(name)
        Ms == {i \in 1..Len(list) : M(i)}
        first == CHOOSE i \in Ms : \A j \in Ms : i <= j
        idx == SelectSeq([i \in 1..Len(list) |-> i], LAMBDA i : ~M(i) \/ i = first)
    IN IF Ms = {}
       THEN Append(list, <<name, value>>)
       ELSE [k \in 1..Len(idx) |->
               IF idx[k] = first THEN <<list[first][1], value>> ELSE list[idx[k]]]

\* Headers.prototype.entries: sort and combine, names lowercased
HeadersEntries(list) ==
    LET F == SelectSeq(SortedNames, LAMBDA n : HeadersGet(list, n) # <<>>)
    IN [i \in 1..Len(F) |-> <<F[i], HeadersGet(list, F[i])>>]

\* new Headers(init.headers): every pair is appended (guard "none")
HeadersNew(pairs) == [i \in 1..Len(pairs) |-> <<pairs[i][1], <<pairs[i][2]>>>>]

\* whether (name, value) is a no-CORS-safelisted request-header
NoCorsSafelisted(name, value) ==
    /\ LowerCase(name) = "content-type"
    /\ Len(value) = 1
    /\ value[1] \in SafelistedTypes

\* Headers append under the guard of a Request's headers
AppendGuarded(list, name, value, guard) ==
    IF guard = "request" /\ LowerCase(name) \in ForbiddenNames
    THEN list
    ELSE IF guard = "request-no-cors"
            /\ ~NoCorsSafelisted(name, HeadersGet(list, name) \o <<value>>)
    THEN list
    ELSE Append(list, <<name, <<value>>>>)

RECURSIVE Fill(_, _, _, _)
Fill(list, pairs, i, guard) ==
    IF i > Len(pairs)
    THEN list
    ELSE Fill(AppendGuarded(list, pairs[i][1], pairs[i][2], guard), pairs, i + 1, guard)

\* line 64, new Request(input, init): req.headers is filled from init.headers
\* when given, else from the headers of input, under the guard that init.mode
\* sets; the type of the body is appended when no Content-Type is there
RequestHeaders(ih, inp, m, bt) ==
    LET guard == IF m = "no-cors" THEN "request-no-cors" ELSE "request"
        filled == Fill(<<>>, IF ih.present THEN ih.list ELSE inp, 1, guard)
    IN IF bt # "" /\ HeadersGet(filled, "content-type") = <<>>
       THEN AppendGuarded(filled, "Content-Type", bt, guard)
       ELSE filled

\* lines 59-63: the headers the caller declared
ExplicitHeaders(ih) == IF ih.present THEN HeadersNew(ih.list) ELSE <<>>

\* lines 69-73: the headers of req the caller did not declare are added
RECURSIVE MergeImplicit(_, _, _)
MergeImplicit(headers, entries, i) ==
    IF i > Len(entries)
    THEN headers
    ELSE MergeImplicit(
           IF ~Truthy(HeadersGet(headers, entries[i][1]))
           THEN HeadersSet(headers, entries[i][1], entries[i][2])
           ELSE headers,
           entries, i + 1)

\* lines 59-85: mappedHeaders, the header list of the request descriptor
MappedHeaders(ih, inp, m, bt) ==
    HeadersEntries(
        MergeImplicit(ExplicitHeaders(ih), HeadersEntries(RequestHeaders(ih, inp, m, bt)), 1))

\* what the host executor may deliver as response metadata. The statuses are
\* ones a Response with a body can carry (200..599, no null-body status).
HostMetas ==
    { [status |-> 200, statusText |-> "OK", url |-> "http://x/ok",
       headers |-> <<<<"content-type", "text/plain">>>>],
      [status |-> 404, statusText |-> "Not Found", url |-> "http://x/moved",
       headers |-> <<<<"set-cookie", "a=1">>, <<"Content-Type", "application/json">>>>] }
\* before line 110 has run / before line 116 has run
NoMeta == [status |-> 0, statusText |-> "", url |-> "", headers |-> <<>>]
NoResponse ==
    [status |-> 0, statusText |-> "", ok |-> FALSE, url |-> "", headers |-> <<>>, body |-> <<>>]

\* ------------------------------------------------------------------ state
\* the state before any of the fetch calls of S has started
InitFetchOn(S) ==
    /\ pc = [c \in S |-> "idle"]
    /\ signal \in [S -> {"none", "live"}]
    /\ abortPc = [c \in S |-> "never"]
    /\ listener = [c \in S |-> FALSE]
    /\ rid = [c \in S |-> NoRid]
    /\ responseRid = [c \in S |-> NoRid]
    /\ outcome = [c \in S |-> Pending]
    /\ trace = [c \in S |-> <<>>]
    /\ nextRid = 1
    /\ meta = [c \in S |-> NoMeta]
    /\ response = [c \in S |-> NoResponse]

InitFetch == InitFetchOn(Calls)

\* index.mjs:7-12
ResponseType == [JSON |-> 1, Text |-> 2, Binary |-> 3]
\* options.responseType left undefined
ResponseTypeUnset == 0
\* index.mjs:356: defaultClient === null
NoClient == 0
NoResult == [status |-> 0, data |-> ""]
LegacyPending == [kind |-> "pending", status |-> 0, data |-> [kind |-> "text", val |-> ""], error |-> ""]
\* the legacy module before its first use
NoLegacy ==
    /\ defaultClient = NoClient
    /\ nextClient = 1
    /\ created = 0
    /\ lpc = [k \in LCalls |-> "done"]
    /\ lopts = [k \in LCalls |-> ResponseTypeUnset]
    /\ lclient = [k \in LCalls |-> NoClient]
    /\ lsent = [k \in LCalls |-> ResponseTypeUnset]
    /\ lres = [k \in LCalls |-> NoResult]
    /\ lout = [k \in LCalls |-> LegacyPending]

\* A client option is <<>> (undefined) or <<v>>.
NoOptionsRec == [maxRedirections |-> <<>>, connectTimeout |-> <<>>, proxy |-> <<>>]
NoOptions ==
    /\ initGiven = [has |-> FALSE, opts |-> NoOptionsRec]
    /\ initObj = initGiven
    /\ sentOptions = <<>>

\* fetch(input) with no init: no headers, no body
NoInit ==
    /\ NoOptions
    /\ NoLegacy
    /\ initHeaders = [present |-> FALSE, list |-> <<>>]
    /\ inputHeaders = <<>>
    /\ mode = "cors"
    /\ bodyType = ""
    /\ mappedHeaders = <<>>
    /\ hpc = "built"
    /\ reqBytes = <<>>
    /\ data = [null |-> TRUE, bytes |-> <<>>]

Init == InitFetch /\ NoInit

\* a bug: the aborted state of the signal is never seen
SignalAbortedNever(c) == FALSE

\* signal?.aborted
SignalAborted(c) == signal[c] = "aborted"

\* the chain of call c ends: its promise settles with o
Settle(c, o) ==
    /\ pc' = [pc EXCEPT ![c] = "done"]
    /\ outcome' = [outcome EXCEPT ![c] = o]

\* the writes of one step to trace[c]
Log(c, evs) == trace' = [trace EXCEPT ![c] = @ \o evs]

\* lines 44-65: the synchronous head of fetch, up to await req.arrayBuffer().
\* new Request(input, init) throws a TypeError on an input it cannot parse.
FetchStart(c) ==
    /\ pc[c] = "idle"
    /\ IF SignalAborted(c)
       THEN Settle(c, Rejected(ERROR_REQUEST_CANCELLED))
       ELSE \E valid \in BOOLEAN :
              IF valid
              THEN pc' = [pc EXCEPT ![c] = "body"] /\ UNCHANGED outcome
              ELSE Settle(c, Rejected("TypeError"))
    /\ UNCHANGED <<signal, abortPc, listener, rid, responseRid, trace, nextRid, rvars, hvars>>

\* lines 65-100: the body is materialized; the request descriptor is built and
\* the open call is issued unless the signal has fired in between
BodyMaterialized(c) ==
    /\ pc[c] = "body"
    /\ IF SignalAborted(c)
       THEN Settle(c, Rejected(ERROR_REQUEST_CANCELLED)) /\ UNCHANGED trace
       ELSE /\ Log(c, <<InvokeEv(CmdFetch, NoRid)>>)
            /\ pc' = [pc EXCEPT ![c] = "open"]
            /\ UNCHANGED outcome
    /\ UNCHANGED <<signal, abortPc, listener, rid, responseRid, nextRid, rvars, hvars>>

\* line 65: req.arrayBuffer() rejects (the body stream errors)
BodyFailed(c) ==
    /\ pc[c] = "body"
    /\ Settle(c, Rejected("BodyError"))
    /\ UNCHANGED <<signal, abortPc, listener, rid, responseRid, trace, nextRid, rvars, hvars>>

\* a bug: no look at the signal once the open call has returned
OpenResolvedNoCheck(c) ==
    /\ pc[c] = "open"
    /\ rid' = [rid EXCEPT ![c] = nextRid]
    /\ nextRid' = nextRid + 1
    /\ Log(c, <<ResolveEv(CmdFetch, nextRid, <<>>), InvokeEv(CmdSend, nextRid)>>)
    /\ listener' = [listener EXCEPT ![c] = (signal[c] # "none")]
    /\ pc' = [pc EXCEPT ![c] = "send"]
    /\ UNCHANGED <<signal, abortPc, responseRid, outcome, rvars, hvars>>

\* a bug: fetch_send is not awaited before the body read is issued
OpenResolvedPipelined(c) ==
    /\ pc[c] = "open"
    /\ rid' = [rid EXCEPT ![c] = nextRid]
    /\ nextRid' = nextRid + 1
    /\ IF SignalAborted(c)
       THEN /\ Log(c, <<ResolveEv(CmdFetch, nextRid, <<>>), InvokeEv(CmdCancel, nextRid)>>)
            /\ Settle(c, Rejected(ERROR_REQUEST_CANCELLED))
            /\ UNCHANGED listener
       ELSE /\ Log(c, <<ResolveEv(CmdFetch, nextRid, <<>>), InvokeEv(CmdSend, nextRid),
                        InvokeEv(CmdReadBody, nextRid)>>)
            /\ listener' = [listener EXCEPT ![c] = (signal[c] # "none")]
            /\ pc' = [pc EXCEPT ![c] = "read"]
            /\ UNCHANGED outcome
    /\ UNCHANGED <<signal, abortPc, responseRid, rvars, hvars>>

\* lines 90-112: the host resolves the open call with a fresh rid
OpenResolved(c) ==
    /\ pc[c] = "open"
    /\ rid' = [rid EXCEPT ![c] = nextRid]
    /\ nextRid' = nextRid + 1
    /\ IF SignalAborted(c)
       THEN /\ Log(c, <<ResolveEv(CmdFetch, nextRid, <<>>), InvokeEv(CmdCancel, nextRid)>>)
            /\ Settle(c, Rejected(ERROR_REQUEST_CANCELLED))
            /\ UNCHANGED listener
       ELSE /\ Log(c, <<ResolveEv(CmdFetch, nextRid, <<>>), InvokeEv(CmdSend, nextRid)>>)
            /\ listener' = [listener EXCEPT ![c] = (signal[c] # "none")]
            /\ pc' = [pc EXCEPT ![c] = "send"]
            /\ UNCHANGED outcome
    /\ UNCHANGED <<signal, abortPc, responseRid, rvars, hvars>>

\* a bug: the rejection of the open call is caught and the chain goes on
OpenRejectedSwallowed(c, e) ==
    /\ pc[c] = "open"
    /\ Log(c, <<RejectEv(CmdFetch, e), InvokeEv(CmdSend, NoRid)>>)
    /\ pc' = [pc EXCEPT ![c] = "send"]
    /\ UNCHANGED <<signal, abortPc, listener, rid, responseRid, outcome, nextRid, rvars, hvars>>

\* line 90: the host rejects the open call; the await throws
OpenRejected(c, e) ==
    /\ pc[c] = "open"
    /\ Log(c, <<RejectEv(CmdFetch, e)>>)
    /\ Settle(c, Rejected(e))
    /\ UNCHANGED <<signal, abortPc, listener, rid, responseRid, nextRid, rvars, hvars>>

\* lines 110-115: the host resolves fetch_send with the response metadata and
\* the rid of the response body; the body read is issued
\* a bug: the body is read with the request rid (the older protocol, in
\* which fetch_send returned no rid of its own)
SendResolvedSameRid(c, m) ==
    /\ pc[c] = "send"
    /\ responseRid' = [responseRid EXCEPT ![c] = nextRid]
    /\ nextRid' = nextRid + 1
    /\ meta' = [meta EXCEPT ![c] = m]
    /\ Log(c, <<ResolveEv(CmdSend, nextRid, <<>>), InvokeEv(CmdReadBody, rid[c])>>)
    /\ pc' = [pc EXCEPT ![c] = "read"]
    /\ UNCHANGED <<signal, abortPc, listener, rid, outcome, response, hvars>>

SendResolved(c, m) ==
    /\ pc[c] = "send"
    /\ responseRid' = [responseRid EXCEPT ![c] = nextRid]
    /\ nextRid' = nextRid + 1
    /\ meta' = [meta EXCEPT ![c] = m]
    /\ Log(c, <<ResolveEv(CmdSend, nextRid, <<>>), InvokeEv(CmdReadBody, nextRid)>>)
    /\ pc' = [pc EXCEPT ![c] = "read"]
    /\ UNCHANGED <<signal, abortPc, listener, rid, outcome, response, hvars>>

\* a bug: the rejection of fetch_send is caught and the body is read anyway
SendRejectedSwallowed(c, e) ==
    /\ pc[c] = "send"
    /\ Log(c, <<RejectEv(CmdSend, e), InvokeEv(CmdReadBody, NoRid)>>)
    /\ pc' = [pc EXCEPT ![c] = "read"]
    /\ UNCHANGED <<signal, abortPc, listener, rid, responseRid, outcome, nextRid, rvars, hvars>>

\* line 110: the host rejects fetch_send; the await throws
SendRejected(c, e) ==
    /\ pc[c] = "send"
    /\ Log(c, <<RejectEv(CmdSend, e)>>)
    /\ Settle(c, Rejected(e))
    /\ UNCHANGED <<signal, abortPc, listener, rid, responseRid, nextRid, rvars, hvars>>

\* lines 116-120: the bytes the Response is built on (null for an empty body,
\* which reads back as no bytes)
ResponseBytes(body) == IF Len(body) > 0 THEN body ELSE <<>>

\* lines 116-123, new Response(body, { status, statusText }): no url, and no
\* headers, since neither null nor a Uint8Array implies a content type
ResponseNew(body, status, statusText) ==
    [status |-> status, statusText |-> statusText,
     ok |-> (status >= 200 /\ status <= 299),
     url |-> "", headers |-> <<>>, body |-> ResponseBytes(body)]

\* a bug: the headers go through the Response constructor, whose guard
\* drops the forbidden response-header names
ReconstructStripped(m, body) ==
    [ResponseNew(body, m.status, m.statusText) EXCEPT
        !.url = m.url,
        !.headers = HeadersNew(SelectSeq(m.headers,
                                         LAMBDA p : LowerCase(p[1]) # "set-cookie"))]

\* lines 116-134: the Response, with url and headers defined over it
Reconstruct(m, body) ==
    [ResponseNew(body, m.status, m.statusText) EXCEPT
        !.url = m.url,
        !.headers = HeadersNew(m.headers)]

\* a bug (strict cancel): the body is dropped when the signal has fired
ReadResolvedStrict(c, body) ==
    /\ pc[c] = "read"
    /\ Log(c, <<ResolveEv(CmdReadBody, NoRid, body)>>)
    /\ IF SignalAborted(c)
       THEN Settle(c, Rejected(ERROR_REQUEST_CANCELLED))
       ELSE Settle(c, Resolved(ResponseBytes(body)))
    /\ response' = [response EXCEPT ![c] =
                       IF SignalAborted(c) THEN @ ELSE Reconstruct(meta[c], body)]
    /\ UNCHANGED <<signal, abortPc, listener, rid, responseRid, nextRid, meta, hvars>>

\* lines 113-134: the host resolves fetch_read_body; the Response is returned
ReadResolved(c, body) ==
    /\ pc[c] = "read"
    /\ Log(c, <<ResolveEv(CmdReadBody, NoRid, body)>>)
    /\ response' = [response EXCEPT ![c] = Reconstruct(meta[c], body)]
    /\ Settle(c, Resolved(response'[c].body))
    /\ UNCHANGED <<signal, abortPc, listener, rid, responseRid, nextRid, meta, hvars>>

\* line 113: the host rejects fetch_read_body; the await throws
\* a bug: a failed body read is recovered from by resolving with the metadata
\* and an empty body
ReadRejectedPartial(c, e) ==
    /\ pc[c] = "read"
    /\ Log(c, <<RejectEv(CmdReadBody, e)>>)
    /\ Settle(c, Resolved(<<>>))
    /\ UNCHANGED <<signal, abortPc, listener, rid, responseRid, nextRid, rvars, hvars>>

\* a bug: the rejection of the body read is caught and the promise of fetch
\* is left unsettled
ReadRejectedHangs(c, e) ==
    /\ pc[c] = "read"
    /\ Log(c, <<RejectEv(CmdReadBody, e)>>)
    /\ pc' = [pc EXCEPT ![c] = "hung"]
    /\ UNCHANGED <<signal, abortPc, listener, rid, responseRid, outcome, nextRid, rvars, hvars>>

ReadRejected(c, e) ==
    /\ pc[c] = "read"
    /\ Log(c, <<RejectEv(CmdReadBody, e)>>)
    /\ Settle(c, Rejected(e))
    /\ UNCHANGED <<signal, abortPc, listener, rid, responseRid, nextRid, rvars, hvars>>

\* a bug: the cancel call names the response rid instead of the request rid
AbortWrongRid(c) ==
    /\ signal[c] = "live"
    /\ signal' = [signal EXCEPT ![c] = "aborted"]
    /\ abortPc' = [abortPc EXCEPT ![c] = pc[c]]
    /\ IF listener[c]
       THEN Log(c, <<InvokeEv(CmdCancel, responseRid[c])>>)
       ELSE UNCHANGED trace
    /\ UNCHANGED <<pc, listener, rid, responseRid, outcome, nextRid, rvars, hvars>>

\* a bug: one listener shared by all calls, so that aborting the signal of one
\* call cancels every call that has a listener
AbortAll(c) ==
    /\ signal[c] = "live"
    /\ signal' = [signal EXCEPT ![c] = "aborted"]
    /\ abortPc' = [abortPc EXCEPT ![c] = pc[c]]
    /\ trace' = [d \in DOMAIN trace |->
                   IF listener[d]
                   THEN trace[d] \o <<InvokeEv(CmdCancel, rid[d])>>
                   ELSE trace[d]]
    /\ UNCHANGED <<pc, listener, rid, responseRid, outcome, nextRid, rvars, hvars>>

\* lines 101, 109: the caller aborts the signal; the 'abort' event is
\* dispatched once, to the listener if it is registered
\* a bug: the abort listener is registered before the open call is issued,
\* so that a cancel call goes out with whatever rid holds
AbortEager(c) ==
    /\ signal[c] = "live"
    /\ signal' = [signal EXCEPT ![c] = "aborted"]
    /\ abortPc' = [abortPc EXCEPT ![c] = pc[c]]
    /\ Log(c, <<InvokeEv(CmdCancel, rid[c])>>)
    /\ UNCHANGED <<pc, listener, rid, responseRid, outcome, nextRid, rvars, hvars>>

Abort(c) ==
    /\ signal[c] = "live"
    /\ signal' = [signal EXCEPT ![c] = "aborted"]
    /\ abortPc' = [abortPc EXCEPT ![c] = pc[c]]
    /\ IF listener[c]
       THEN Log(c, <<InvokeEv(CmdCancel, rid[c])>>)
       ELSE UNCHANGED trace
    /\ UNCHANGED <<pc, listener, rid, responseRid, outcome, nextRid, rvars, hvars>>

\* lines 101-109: the host answers a cancel call; nobody awaits that promise
\* a bug: the cancel call is awaited, so that its rejection becomes the
\* outcome of the fetch call
CancelSettledAwaited(c, ok) ==
    /\ Outstanding(c, CmdCancel) > 0
    /\ Log(c, <<IF ok THEN ResolveEv(CmdCancel, NoRid, <<>>)
                      ELSE RejectEv(CmdCancel, "TransportError")>>)
    /\ IF ok THEN UNCHANGED <<pc, outcome>> ELSE Settle(c, Rejected("TransportError"))
    /\ UNCHANGED <<signal, abortPc, listener, rid, responseRid, nextRid, rvars, hvars>>

CancelSettled(c, ok) ==
    /\ Outstanding(c, CmdCancel) > 0
    /\ Log(c, <<IF ok THEN ResolveEv(CmdCancel, NoRid, <<>>)
                      ELSE RejectEv(CmdCancel, "TransportError")>>)
    /\ UNCHANGED <<pc, signal, abortPc, listener, rid, responseRid, outcome, nextRid, rvars, hvars>>

Next ==
    \/ \E c \in Calls : FetchStart(c)
    \/ \E c \in Calls : BodyMaterialized(c)
    \/ \E c \in Calls : BodyFailed(c)
    \/ \E c \in Calls : OpenResolved(c)
    \/ \E c \in Calls, e \in HostErrors : OpenRejected(c, e)
    \/ \E c \in Calls, m \in HostMetas : SendResolved(c, m)
    \/ \E c \in Calls, e \in HostErrors : SendRejected(c, e)
    \/ \E c \in Calls, b \in HostBodies : ReadResolved(c, b)
    \/ \E c \in Calls, e \in HostErrors : ReadRejected(c, e)
    \/ \E c \in Calls : Abort(c)
    \/ \E c \in Calls, ok \in BOOLEAN : CancelSettled(c, ok)

Spec == Init /\ [][Next]_vars

\* The chain of call c moves: its synchronous head runs, the body promise
\* settles, or the host answers the protocol call the chain is suspended on.
ChainStep(c) ==
    \/ FetchStart(c)
    \/ BodyMaterialized(c)
    \/ BodyFailed(c)
    \/ OpenResolved(c)
    \/ \E e \in HostErrors : OpenRejected(c, e)
    \/ \E m \in HostMetas : SendResolved(c, m)
    \/ \E e \in HostErrors : SendRejected(c, e)
    \/ \E b \in HostBodies : ReadResolved(c, b)
    \/ \E e \in HostErrors : ReadRejected(c, e)
\* The host answers every remote call, cancel calls included, and the event
\* loop runs every continuation that is ready; whether and when a signal
\* fires is left open.
Fairness ==
    \A c \in Calls :
        /\ WF_vars(ChainStep(c))
        /\ WF_vars(\E ok \in BOOLEAN : CancelSettled(c, ok))
SpecLive == Init /\ [][Next]_vars /\ Fairness

\* two fetch calls of the same context, each with its own init and signal
Pair == {1, 2}
\* a step of the chain of call c, of its signal or of the host on its behalf
CallStep(c) ==
    \/ FetchStart(c)
    \/ BodyMaterialized(c)
    \/ BodyFailed(c)
    \/ OpenResolved(c)
    \/ \E e \in HostErrors : OpenRejected(c, e)
    \/ \E m \in HostMetas : SendResolved(c, m)
    \/ \E e \in HostErrors : SendRejected(c, e)
    \/ \E b \in HostBodies : ReadResolved(c, b)
    \/ \E e \in HostErrors : ReadRejected(c, e)
    \/ Abort(c)
    \/ \E ok \in BOOLEAN : CancelSettled(c, ok)
InitPair == InitFetchOn(Pair) /\ NoInit
NextPair == \E c \in Pair : CallStep(c)
SpecPair == InitPair /\ [][NextPair]_vars

\* ---------------------------------------------------- request descriptor
\* the byte values of a request body
ByteValues == {0, 72, 255}
BodyLists == UNION {[1..n -> ByteValues] : n \in 0..MaxBody}

\* a bug: an empty buffer is sent as an empty array
RequestDataAlwaysArray(buffer) == [null |-> FALSE, bytes |-> buffer]

\* line 66: buffer.byteLength !== 0 ? Array.from(new Uint8Array(buffer)) : null
RequestData(buffer) ==
    IF Len(buffer) # 0
    THEN [null |-> FALSE, bytes |-> [i \in 1..Len(buffer) |-> buffer[i] % 256]]
    ELSE [null |-> TRUE, bytes |-> <<>>]

\* the inputs of one fetch call that bear on its headers
InitDescriptor ==
    /\ NoOptions
    /\ NoLegacy
    /\ initHeaders \in {[present |-> FALSE, list |-> <<>>]}
                        \cup {[present |-> TRUE, list |-> l] : l \in PairLists}
    /\ inputHeaders \in {<<>>, <<<<"X-Id", "application/json">>>>}
    /\ mode \in {"cors", "no-cors"}
    /\ bodyType \in {"", ImplicitType}
    /\ mappedHeaders = <<>>
    /\ hpc = "built"
    /\ reqBytes \in BodyLists
    /\ data = [null |-> TRUE, bytes |-> <<>>]

\* lines 59-100: the descriptor is built and handed to the open call
BuildDescriptor ==
    /\ hpc = "built"
    /\ mappedHeaders' = MappedHeaders(initHeaders, inputHeaders, mode, bodyType)
    /\ data' = RequestData(reqBytes)
    /\ hpc' = "sent"
    /\ UNCHANGED <<initHeaders, inputHeaders, mode, bodyType, reqBytes, ovars, lvars, fvars>>

InitHeaders ==
    /\ InitFetch
    /\ signal = [c \in Calls |-> "none"]
    /\ InitDescriptor
NextHeaders == BuildDescriptor
SpecHeaders == InitHeaders /\ [][NextHeaders]_vars

\* ------------------------------------------------------- client options
OptionRecs ==
    [maxRedirections : {<<>>, <<0>>, <<1>>, <<5>>},
     connectTimeout : {<<>>, <<0>>, <<100>>, <<30000>>},
     proxy : {<<>>, <<"http://proxy-a">>, <<"http://proxy-b">>}]

\* lines 50-52: init?.maxRedirections, init?.connectTimeout, init?.proxy
ReadOptions(i) == IF i.has THEN i.opts ELSE NoOptionsRec

\* a bug the other way: the options are stripped off a copy of init
StripOptionsOfCopy(i) == i

\* lines 54-58: delete init.maxRedirections, init.connectTimeout, init.proxy
StripOptions(i) == IF i.has THEN [i EXCEPT !.opts = NoOptionsRec] ELSE i

InitOptions ==
    /\ InitFetch
    /\ signal = [c \in Calls |-> "none"]
    /\ initHeaders = [present |-> FALSE, list |-> <<>>]
    /\ inputHeaders = <<>>
    /\ mode = "cors"
    /\ bodyType = ""
    /\ mappedHeaders = <<>>
    /\ hpc = "built"
    /\ reqBytes = <<>>
    /\ data = [null |-> TRUE, bytes |-> <<>>]
    /\ initGiven \in {[has |-> FALSE, opts |-> NoOptionsRec]}
                      \cup {[has |-> TRUE, opts |-> o] : o \in OptionRecs}
    /\ initObj = initGiven
    /\ sentOptions = <<>>
    /\ NoLegacy

\* lines 50-58, 96-98: one fetch call made with the caller's init object
FetchWithInit ==
    /\ Len(sentOptions) < MaxFetches
    /\ sentOptions' = Append(sentOptions, ReadOptions(initObj))
    /\ initObj' = StripOptions(initObj)
    /\ UNCHANGED <<initGiven, initHeaders, inputHeaders, mode, bodyType, mappedHeaders,
                   hpc, reqBytes, data, lvars, fvars>>

NextOptions == FetchWithInit
SpecOptions == InitOptions /\ [][NextOptions]_vars

\* --------------------------------------------- legacy client (index.mjs)
\* the response types a caller passes, and what the host answers a request
LegacyTypes == {ResponseTypeUnset, ResponseType.JSON, ResponseType.Text}
HostTexts == {"", "oops", " {\"a\":1}"}
HostResults == [status : {200, 404}, data : HostTexts]
\* the Error thrown at index.mjs:220
ParseError == "Failed to parse response as JSON"

TextData(t) == [kind |-> "text", val |-> t]
JsonData(v) == [kind |-> "json", val |-> v]
\* JSON.parse(text): the decoded value, or a SyntaxError
JsonParse(t) ==
    IF t = " {\"a\":1}" THEN [ok |-> TRUE, value |-> JsonData("{a:1}")]
    ELSE [ok |-> FALSE, value |-> TextData(t)]
\* the value of the literal {}
EmptyObject == JsonData("{}")

\* index.mjs:156: this.ok
ResponseOk(status) == status >= 200 /\ status < 300

\* index.mjs:199
JsonResponse(t) == t = ResponseTypeUnset \/ t = ResponseType.JSON
\* index.mjs:200-202: the responseType the host is asked for
SentType(t) == IF JsonResponse(t) THEN ResponseType.Text ELSE t

LegacyResolved(res, d) == [kind |-> "resolved", status |-> res.status, data |-> d, error |-> ""]
LegacyRejected(e) == [kind |-> "rejected", status |-> 0, data |-> TextData(""), error |-> e]

\* a bug: a body that does not decode is an error whatever the status
LegacyResponseStrict(t, res) ==
    IF ~JsonResponse(t) THEN LegacyResolved(res, TextData(res.data))
    ELSE IF JsonParse(res.data).ok THEN LegacyResolved(res, JsonParse(res.data).value)
    ELSE IF ResponseOk(res.status) /\ res.data = "" THEN LegacyResolved(res, EmptyObject)
    ELSE LegacyRejected(ParseError)

\* index.mjs:208-227: the then-callback of request
LegacyResponse(t, res) ==
    IF ~JsonResponse(t) THEN LegacyResolved(res, TextData(res.data))
    ELSE IF JsonParse(res.data).ok THEN LegacyResolved(res, JsonParse(res.data).value)
    ELSE IF ResponseOk(res.status) /\ res.data = "" THEN LegacyResolved(res, EmptyObject)
    ELSE IF ResponseOk(res.status) THEN LegacyRejected(ParseError)
    ELSE LegacyResolved(res, TextData(res.data))

InitLegacy ==
    /\ InitFetch
    /\ signal = [c \in Calls |-> "none"]
    /\ initHeaders = [present |-> FALSE, list |-> <<>>]
    /\ inputHeaders = <<>>
    /\ mode = "cors"
    /\ bodyType = ""
    /\ mappedHeaders = <<>>
    /\ hpc = "built"
    /\ reqBytes = <<>>
    /\ data = [null |-> TRUE, bytes |-> <<>>]
    /\ NoOptions
    /\ defaultClient = NoClient
    /\ nextClient = 1
    /\ created = 0
    /\ lpc = [k \in LCalls |-> "idle"]
    /\ lopts \in [LCalls -> LegacyTypes]
    /\ lclient = [k \in LCalls |-> NoClient]
    /\ lsent = [k \in LCalls |-> ResponseTypeUnset]
    /\ lres = [k \in LCalls |-> NoResult]
    /\ lout = [k \in LCalls |-> LegacyPending]

nonLegacy == <<fvars, initHeaders, inputHeaders, mode, bodyType, mappedHeaders, hpc,
               reqBytes, data, ovars>>

\* index.mjs:198-207: request(options) of the client id, up to the invoke
ClientRequest(k, id) ==
    /\ lclient' = [lclient EXCEPT ![k] = id]
    /\ lsent' = [lsent EXCEPT ![k] = SentType(lopts[k])]
    /\ lpc' = [lpc EXCEPT ![k] = "request"]

\* index.mjs:368-378: fetch(url, options) up to its first await
LegacyFetch(k) ==
    /\ lpc[k] = "idle"
    /\ IF defaultClient = NoClient
       THEN /\ created' = created + 1
            /\ lpc' = [lpc EXCEPT ![k] = "create"]
            /\ UNCHANGED <<lclient, lsent>>
       ELSE /\ ClientRequest(k, defaultClient)
            /\ UNCHANGED created
    /\ UNCHANGED <<defaultClient, nextClient, lopts, lres, lout, nonLegacy>>

\* index.mjs:348-354, 371-373: create_client resolves, defaultClient is
\* assigned and the request goes out on it
CreateResolved(k) ==
    /\ lpc[k] = "create"
    /\ defaultClient' = nextClient
    /\ nextClient' = nextClient + 1
    /\ ClientRequest(k, nextClient)
    /\ UNCHANGED <<created, lopts, lres, lout, nonLegacy>>

CreateRejected(k, e) ==
    /\ lpc[k] = "create"
    /\ lpc' = [lpc EXCEPT ![k] = "done"]
    /\ lout' = [lout EXCEPT ![k] = LegacyRejected(e)]
    /\ UNCHANGED <<defaultClient, nextClient, created, lopts, lclient, lsent, lres, nonLegacy>>

\* index.mjs:208-227
RequestResolved(k, res) ==
    /\ lpc[k] = "request"
    /\ lres' = [lres EXCEPT ![k] = res]
    /\ lpc' = [lpc EXCEPT ![k] = "done"]
    /\ lout' = [lout EXCEPT ![k] = LegacyResponse(lopts[k], res)]
    /\ UNCHANGED <<defaultClient, nextClient, created, lopts, lclient, lsent, nonLegacy>>

RequestRejected(k, e) ==
    /\ lpc[k] = "request"
    /\ lpc' = [lpc EXCEPT ![k] = "done"]
    /\ lout' = [lout EXCEPT ![k] = LegacyRejected(e)]
    /\ UNCHANGED <<defaultClient, nextClient, created, lopts, lclient, lsent, lres, nonLegacy>>

NextLegacy ==
    \/ \E k \in LCalls : LegacyFetch(k)
    \/ \E k \in LCalls : CreateResolved(k)
    \/ \E k \in LCalls, e \in HostErrors : CreateRejected(k, e)
    \/ \E k \in LCalls, res \in HostResults : RequestResolved(k, res)
    \/ \E k \in LCalls, e \in HostErrors : RequestRejected(k, e)
SpecLegacy == InitLegacy /\ [][NextLegacy]_vars

\* ---------------------------------------------------------------- claims
Cancelled == Rejected(ERROR_REQUEST_CANCELLED)
\* the signal fired before the send call could be issued
PreSend == {"idle", "body", "open"}
\* a step before the send call failed on its own, and fetch rejected with it
EarlierStepFailed(c) ==
    \/ outcome[c] = Rejected("BodyError")
    \/ RejectedCmd(c, CmdFetch) /\ outcome[c] = Rejected(ErrorOf(c, CmdFetch))

\* C1: a signal already aborted when fetch is called makes fetch reject with
\* 'Request canceled', and neither the open call nor the send call is issued.
C1_AbortedBeforeCall ==
    \A c \in Calls :
        (abortPc[c] = "idle" /\ pc[c] # "idle") =>
            /\ outcome[c] = Cancelled
            /\ Invoked(c, CmdFetch) = 0
            /\ Invoked(c, CmdSend) = 0
C1_Witness == \E c \in Calls : abortPc[c] = "idle" /\ pc[c] = "done"

\* C2 as claimed: a signal that fires at any moment before the send call is
\* issued keeps the send call from being issued and makes fetch reject with
\* 'Request canceled'.
C2_Original ==
    \A c \in Calls :
        abortPc[c] \in PreSend =>
            /\ Invoked(c, CmdSend) = 0
            /\ pc[c] = "done" => outcome[c] = Cancelled
\* C2 as amended: a signal that fires before the send call is issued keeps the
\* send call from being issued; fetch rejects with 'Request canceled' unless
\* body materialization or the open call fails, and then with that failure.
C2_AbortBeforeSend ==
    \A c \in Calls :
        abortPc[c] \in PreSend =>
            /\ Invoked(c, CmdSend) = 0
            /\ pc[c] = "done" => (outcome[c] = Cancelled \/ EarlierStepFailed(c))
            /\ (pc[c] = "done" /\ ResolvedCmd(c, CmdFetch)) => outcome[c] = Cancelled
C2_Witness ==
    \E c \in Calls :
        abortPc[c] = "open" /\ ResolvedCmd(c, CmdFetch) /\ outcome[c] = Cancelled

\* C3: the protocol calls of one fetch are sequential: send is issued after
\* open resolved, readBody after send resolved, and never are two of them
\* outstanding together.
C3_Sequential ==
    \A c \in Calls :
        /\ Outstanding(c, CmdFetch) + Outstanding(c, CmdSend)
             + Outstanding(c, CmdReadBody) <= 1
        /\ Invoked(c, CmdSend) > 0 =>
             /\ Pos(c, "resolve", CmdFetch) > 0
             /\ Pos(c, "resolve", CmdFetch) < Pos(c, "invoke", CmdSend)
        /\ Invoked(c, CmdReadBody) > 0 =>
             /\ Pos(c, "resolve", CmdSend) > 0
             /\ Pos(c, "resolve", CmdSend) < Pos(c, "invoke", CmdReadBody)
C3_Witness == \E c \in Calls : ResolvedCmd(c, CmdReadBody)

\* C4 as claimed: a request handle returned by the open call is read to
\* completion or cancelled; once a call without a signal has settled nothing
\* more happens for it, so its handle must be released by then.
C4_HandleNeverAbandoned ==
    \A c \in Calls :
        (pc[c] = "done" /\ rid[c] # NoRid /\ signal[c] = "none") =>
            \/ ResolvedCmd(c, CmdReadBody)
            \/ InvokedWith(c, CmdCancel, rid[c])

\* C5: when the host rejects the open call fetch rejects with the host's
\* error, and no send, readBody or cancel call is issued, also when the
\* signal fires afterwards.
C5_OpenRejected ==
    \A c \in Calls :
        RejectedCmd(c, CmdFetch) =>
            /\ outcome[c] = Rejected(ErrorOf(c, CmdFetch))
            /\ Invoked(c, CmdSend) = 0
            /\ Invoked(c, CmdReadBody) = 0
            /\ Invoked(c, CmdCancel) = 0
C5_Witness ==
    \E c \in Calls : RejectedCmd(c, CmdFetch) /\ abortPc[c] = "done"

\* C6: when the host rejects fetch_send fetch rejects with that error and
\* fetch_read_body is never issued.
C6_SendRejected ==
    \A c \in Calls :
        RejectedCmd(c, CmdSend) =>
            /\ outcome[c] = Rejected(ErrorOf(c, CmdSend))
            /\ Invoked(c, CmdReadBody) = 0
C6_Witness ==
    \E c \in Calls : RejectedCmd(c, CmdSend) /\ ErrorOf(c, CmdSend) = "TransportError"

\* C7: a signal that fires after the metadata has been received leaves the
\* body read issued, and when the host returns the body fetch resolves with
\* that body.
C7_AbortAfterMetadata ==
    \A c \in Calls :
        abortPc[c] = "read" =>
            /\ Invoked(c, CmdReadBody) = 1
            /\ ResolvedCmd(c, CmdReadBody) => outcome[c] = Resolved(BodyOf(c))
C7_Witness ==
    \E c \in Calls : abortPc[c] = "read" /\ outcome[c] = Resolved(<<72, 105>>)

\* C8: a signal that fires after the open call returned a handle, while the
\* fetch is in flight, has a cancel call issued that names that handle.
C8_CancelIssued ==
    \A c \in Calls :
        (abortPc[c] \in {"open", "send", "read"} /\ rid[c] # NoRid) =>
            InvokedWith(c, CmdCancel, rid[c])
C8_Witness ==
    \E c \in Calls : abortPc[c] = "send" /\ InvokedWith(c, CmdCancel, rid[c])

\* C9 as claimed: a signal that fires at any time before the response
\* metadata is received makes fetch reject with 'Request canceled'.
C9_Original ==
    \A c \in Calls :
        (abortPc[c] \in PreSend \cup {"send"} /\ pc[c] = "done") =>
            outcome[c] = Cancelled
\* C9 as amended: a signal that fires before the send call is issued makes
\* fetch reject with 'Request canceled' unless an earlier step failed; that
\* error is none of the host's errors, and fetch only rejects with it when the
\* signal fired before the send call; a signal that fires while the send call
\* is in flight leaves the outcome to the host.
C9_CancelledDistinct ==
    \A c \in Calls :
        /\ (abortPc[c] \in PreSend /\ pc[c] = "done" /\ ~EarlierStepFailed(c)) =>
               outcome[c] = Cancelled
        /\ outcome[c] = Cancelled =>
               /\ abortPc[c] \in PreSend
               /\ outcome[c].error \notin HostErrors
        /\ (abortPc[c] = "send" /\ pc[c] = "done") =>
               \/ RejectedCmd(c, CmdSend) /\ outcome[c] = Rejected(ErrorOf(c, CmdSend))
               \/ RejectedCmd(c, CmdReadBody) /\ outcome[c] = Rejected(ErrorOf(c, CmdReadBody))
               \/ ResolvedCmd(c, CmdReadBody) /\ outcome[c] = Resolved(BodyOf(c))
C9_Witness ==
    \E c \in Calls : abortPc[c] = "send" /\ outcome[c].kind = "resolved"

\* the ", "-joined value the caller declared for the lowercased name n
CallerValue(n) ==
    LET F == SelectSeq(initHeaders.list, LAMBDA p : LowerCase(p[1]) = n)
    IN [i \in 1..Len(F) |-> F[i][2]]
\* the values sent to the host under the name n
SentValues(n) ==
    LET F == SelectSeq(mappedHeaders, LAMBDA p : p[1] = n)
    IN [i \in 1..Len(F) |-> F[i][2]]

\* C10 as claimed: in the header list sent, the value of every name the
\* caller declared is the caller's value, the empty string included; no
\* implicit header of the request replaces it.
C10_ExplicitNeverOverwritten ==
    hpc = "sent" =>
        \A n \in {LowerCase(h) : h \in HeaderNames} :
            CallerValue(n) # <<>> => SentValues(n) = <<CallerValue(n)>>
\* the extent of the failure: a declared value other than one empty string
\* is sent as declared
C10_NonEmptyPreserved ==
    hpc = "sent" =>
        \A n \in {LowerCase(h) : h \in HeaderNames} :
            (CallerValue(n) # <<>> /\ CallerValue(n) # <<"">>) =>
                SentValues(n) = <<CallerValue(n)>>


\* C11: the body sent to the host is null exactly when the materialized
\* body has no bytes, and otherwise the bytes of the body in order; an empty
\* byte sequence is never sent.
C11_BodyNullIffEmpty ==
    hpc = "sent" =>
        /\ data.null <=> Len(reqBytes) = 0
        /\ ~data.null => (data.bytes = reqBytes /\ data.bytes # <<>>)
        /\ data.null => data.bytes = <<>>
C11_Witness == hpc = "sent" /\ reqBytes = <<>> /\ data.null

\* the ", "-joined value the host delivered for the header named n
HostValue(c, n) ==
    LET F == SelectSeq(meta[c].headers, LAMBDA p : LowerCase(p[1]) = LowerCase(n))
    IN [i \in 1..Len(F) |-> F[i][2]]

\* C12: when fetch resolves, the response has the status and statusText of
\* the host, the bytes readBody returned, and the url and the header pairs
\* awaitMetadata returned; for 200, content-type text/plain and the bytes
\* 72, 105 it is ok, its content-type reads text/plain and its body is "Hi".
C12_ResponseReproducesHost ==
    \A c \in Calls :
        outcome[c].kind = "resolved" =>
            /\ response[c].status = meta[c].status
            /\ response[c].statusText = meta[c].statusText
            /\ response[c].ok = (meta[c].status \in 200..299)
            /\ response[c].body = BodyOf(c)
            /\ outcome[c].value = BodyOf(c)
            /\ response[c].url = meta[c].url
            /\ \A n \in {"content-type", "set-cookie", "x-id"} :
                   HeadersGet(response[c].headers, n) = HostValue(c, n)
            /\ (meta[c].status = 200 /\ BodyOf(c) = <<72, 105>>) =>
                   /\ response[c].ok
                   /\ HeadersGet(response[c].headers, "Content-Type") = <<"text/plain">>
C12_Witness ==
    \E c \in Calls :
        /\ outcome[c] = Resolved(<<72, 105>>)
        /\ response[c].status = 200
        /\ response[c].url = "http://x/ok"

\* all that fetch call c holds
PerCall(c) ==
    <<pc[c], signal[c], abortPc[c], listener[c], rid[c], responseRid[c], outcome[c],
      trace[c], meta[c], response[c]>>
\* the chain of call c is suspended on the host
Awaiting(c) == pc[c] \in {"open", "send", "read"}
HandleIsolation ==
    \A c \in Pair : \A d \in Pair \ {c} :
        /\ \A i \in 1..Len(trace[c]) :
               trace[c][i].ev = "invoke" =>
                   /\ trace[c][i].rid \in {NoRid, rid[c], responseRid[c]}
                   /\ trace[c][i].rid # NoRid =>
                          trace[c][i].rid \notin {rid[d], responseRid[d]}
        /\ Invoked(c, CmdCancel) > 0 => signal[c] = "aborted"
        /\ Awaiting(c) => ENABLED (\E b \in HostBodies, m \in HostMetas :
                                     \/ OpenResolved(c)
                                     \/ SendResolved(c, m)
                                     \/ ReadResolved(c, b))

\* C13: two concurrent fetch calls are independent: each call names only the
\* handles returned to it, aborting the signal of one never issues a cancel
\* for the other, a step of one leaves all that the other holds unchanged,
\* and a call that waits for the host can go on whatever the other does.
C13_Independent ==
    /\ []HandleIsolation
    /\ [][\A c \in Pair : \A d \in Pair \ {c} :
             PerCall(c)' # PerCall(c) => PerCall(d)' = PerCall(d)]_vars
C13_Witness ==
    \E c \in Pair : \E d \in Pair \ {c} :
        /\ abortPc[c] = "send" /\ InvokedWith(c, CmdCancel, rid[c])
        /\ outcome[d].kind = "resolved" /\ signal[d] = "live"
        /\ Invoked(d, CmdCancel) = 0

\* the events the step adds to the trace of c
NewEvents(c) == {i \in (Len(trace[c]) + 1)..Len(trace'[c]) : TRUE}

\* C14 as claimed: once a fetch call has settled, no later remote call names
\* its request handle.
C14_Original ==
    [][\A c \in Calls :
          (pc[c] = "done" /\ rid[c] # NoRid) =>
              \A i \in NewEvents(c) :
                  ~(trace'[c][i].ev = "invoke" /\ trace'[c][i].rid = rid[c])]_vars
\* C14 as amended: once a fetch call has settled it issues no protocol call
\* and names its body handle no more; the one remote call it still issues is
\* the cancel call of its abort listener, naming its request handle, in the
\* step in which the signal fires.
C14_OnlyLateCancel ==
    [][\A c \in Calls :
          pc[c] = "done" =>
              \A i \in NewEvents(c) :
                  trace'[c][i].ev = "invoke" =>
                      /\ trace'[c][i] = InvokeEv(CmdCancel, rid[c])
                      /\ rid[c] # NoRid
                      /\ signal[c] = "live" /\ signal'[c] = "aborted"]_vars
C14_Witness ==
    \E c \in Calls :
        /\ abortPc[c] = "done"
        /\ outcome[c].kind = "resolved"
        /\ InvokedWith(c, CmdCancel, rid[c])

C16_NoRetryNoRecovery ==
    \A c \in Calls : \A cmd \in ProtocolCmds :
        /\ Invoked(c, cmd) <= 1
        /\ RejectedCmd(c, cmd) =>
              /\ outcome[c] = Rejected(ErrorOf(c, cmd))
              /\ pc[c] = "done"
              /\ response[c] = NoResponse
C16_Witness ==
    \E c \in Calls :
        /\ ResolvedCmd(c, CmdSend) /\ meta[c] # NoMeta
        /\ RejectedCmd(c, CmdReadBody)
        /\ outcome[c] = Rejected("TransportError")

\* the rid the host resolved cmd with, for call c, before event i
ReturnedBefore(c, i, cmd, r) ==
    \E j \in 1..(i - 1) : trace[c][j].ev = "resolve" /\ trace[c][j].cmd = cmd
                          /\ trace[c][j].rid = r

\* C17: the send call and every cancel call carry the rid the open call of
\* that fetch returned; the readBody call carries the rid returned with the
\* response metadata, which is not the request rid.
C17_HandleFlow ==
    \A c \in Calls : \A i \in 1..Len(trace[c]) :
        LET e == trace[c][i] IN
        e.ev = "invoke" =>
            /\ e.cmd \in {CmdSend, CmdCancel} =>
                  e.rid = rid[c] /\ ReturnedBefore(c, i, CmdFetch, e.rid)
            /\ e.cmd = CmdReadBody =>
                  /\ e.rid = responseRid[c] /\ ReturnedBefore(c, i, CmdSend, e.rid)
                  /\ e.rid # rid[c]
C17_Witness ==
    \E c \in Calls :
        /\ InvokedWith(c, CmdSend, rid[c])
        /\ InvokedWith(c, CmdCancel, rid[c])
        /\ InvokedWith(c, CmdReadBody, responseRid[c])
        /\ responseRid[c] # rid[c]

\* the step settles a cancel call of c
CancelAnswered(c) ==
    \E i \in NewEvents(c) : trace'[c][i].cmd = CmdCancel /\ trace'[c][i].ev # "invoke"

\* C18: the answer of the host to a cancel call, resolved or rejected, early
\* or late, changes neither the outcome nor the position of the fetch call;
\* and a fire of the signal after the call has settled leaves its outcome as
\* it is.
C18_CancelFireAndForget ==
    [][\A c \in Calls :
          /\ CancelAnswered(c) => outcome'[c] = outcome[c] /\ pc'[c] = pc[c]
          /\ (pc[c] = "done" /\ signal'[c] # signal[c]) =>
                outcome'[c] = outcome[c] /\ pc'[c] = "done"]_vars
C18_Witness ==
    \E c \in Calls :
        /\ abortPc[c] = "done"
        /\ RejectedCmd(c, CmdCancel)
        /\ outcome[c].kind = "resolved"

\* the host has answered the request of call k, made with the JSON type
JsonAnswered(k) == lpc[k] = "done" /\ lres[k] # NoResult /\ JsonResponse(lopts[k])

\* C19: a request with the JSON response type (or none) asks the host for
\* Text; a text that decodes gives the decoded value; one that does not gives
\* {} if it is empty and the response ok, a parse error that is no host error
\* if it is not empty and the response ok, and the raw text if the response
\* is not ok.
C19_JsonDecoding ==
    \A k \in LCalls :
        /\ (lpc[k] = "request" /\ JsonResponse(lopts[k])) => lsent[k] = ResponseType.Text
        /\ JsonAnswered(k) =>
              LET res == lres[k]
                  p == JsonParse(res.data)
                  ok == res.status >= 200 /\ res.status < 300
              IN /\ lsent[k] = ResponseType.Text
                 /\ p.ok => lout[k] = LegacyResolved(res, p.value)
                 /\ (~p.ok /\ ok /\ res.data = "") => lout[k] = LegacyResolved(res, EmptyObject)
                 /\ (~p.ok /\ ok /\ res.data # "") =>
                       /\ lout[k] = LegacyRejected(ParseError)
                       /\ ParseError \notin HostErrors
                 /\ (~p.ok /\ ~ok) =>
                       lout[k] = LegacyResolved(res, TextData(res.data))
C19_Witness ==
    \E k \in LCalls :
        /\ JsonAnswered(k)
        /\ lres[k] = [status |-> 404, data |-> "oops"]
        /\ lout[k].kind = "resolved" /\ lout[k].data = TextData("oops")

\* C20 as claimed: at most one create_client call is issued, and all legacy
\* fetch calls send their requests with the same client id.
C20_DefaultClientOnce ==
    /\ created <= 1
    /\ \A k \in LCalls : \A j \in LCalls :
          (lclient[k] # NoClient /\ lclient[j] # NoClient) => lclient[k] = lclient[j]

\* C21: a fetch call invokes cancel at most once, only after its open call
\* has resolved with a rid, and only if its signal has fired.
C21_AtMostOneCancel ==
    \A c \in Calls :
        /\ Invoked(c, CmdCancel) <= 1
        /\ Invoked(c, CmdCancel) > 0 =>
              /\ signal[c] = "aborted"
              /\ rid[c] # NoRid
              /\ Pos(c, "resolve", CmdFetch) > 0
              /\ Pos(c, "resolve", CmdFetch) < Pos(c, "invoke", CmdCancel)
C21_Witness ==
    \E c \in Calls :
        /\ abortPc[c] = "open"
        /\ ResolvedCmd(c, CmdFetch)
        /\ Invoked(c, CmdCancel) = 1
        /\ listener[c] = FALSE

\* the protocol call the chain of c is suspended on
CurrentCmd(c) ==
    IF pc[c] = "open" THEN CmdFetch ELSE IF pc[c] = "send" THEN CmdSend ELSE CmdReadBody
\* the step brings the answer of the host to a protocol call of c
ProtocolAnswered(c) ==
    \E i \in NewEvents(c) : trace'[c][i].cmd \in ProtocolCmds /\ trace'[c][i].ev # "invoke"

====
